---- MODULE Spec2Model ----
(***************************************************************************)
(* Content addressing and two-stage proving pipeline of ipfs-risc0:        *)
(*   common/src/cid.rs                  Player, FileStats, ComputeCid      *)
(*   methods/guest/.../verify_cid.rs    the leaf guest program             *)
(*   methods-team/guest/.../make_team.rs the aggregate guest program       *)
(*   apps/src/bin/publisher.rs          the host orchestrator              *)
(*                                                                         *)
(* Cryptography is symbolic: SHA-256 is a free constructor (no collisions, *)
(* no inversion) and a receipt can exist only for a journal its program    *)
(* really committed.  Byte strings are sequences of symbols; a symbol is   *)
(* one character or one fixed JSON fragment.                               *)
(***************************************************************************)
EXTENDS Integers, Sequences, FiniteSets, TLC

VARIABLES
    cid,       \* a pair of compute_cid calls in progress (cid.rs)
    leaf,      \* the leaf proving tasks, one verify_cid run each
    team,      \* the aggregate proving task, one make_team run
    receipts,  \* the receipts the host holds
    pub        \* the publisher's main()

vars == <<cid, leaf, team, receipts, pub>>

(* ------------------------------ bounds -------------------------------- *)
\* Stand-in for the chunker's block size (FileAdder::default()).
ChunkSize == 4
\* Token ids known to the player contract are 0..MaxTokenId.
MaxTokenId == 1
\* Number of receipts the host may hold at once.
MaxReceipts == 2
\* Leaf proving tasks the host may have in flight are 1..MaxLeafRuns.
MaxLeafRuns == 2
\* Byte slices given to compute_cid directly are at most this long (more
\* than two chunks).
MaxInputLen == 9

(* ------------------------- records (cid.rs) --------------------------- *)
\* f64 values, named by their shortest decimal text; NaN and the
\* infinities have no decimal text.
NonFinite == {"NaN", "inf"}
F64 == {"94.0", "170.0"} \cup NonFinite

\* u8 values used for jersey_number.
U8 == {7, 10}

Attribute == [display_type : {"Physical"}, trait_type : {"Height"}, value : {"170.0", "NaN"}]

\* struct Player; description, external_url, image, tier, skill_multiplier
\* and skill are held fixed and left out of the serialized form.
Player == [name : {"Lionel Messi"},
           jersey_number : U8,
           overall_rating : {"94.0"} \cup NonFinite,
           attributes : {<<>>} \cup {<<a>> : a \in Attribute}]

\* gen_test_player() of publisher.rs, restricted to the modelled fields.
gen_test_player ==
    [name |-> "Lionel Messi", jersey_number |-> 10, overall_rating |-> "94.0",
     attributes |-> << [display_type |-> "Physical", trait_type |-> "Height",
                        value |-> "170.0"] >>]

(* ------------------ serde_json::to_string (cid.rs:57) ----------------- *)
Digit(d) == CASE d = 0 -> "0" [] d = 1 -> "1" [] d = 2 -> "2" [] d = 3 -> "3"
              [] d = 4 -> "4" [] d = 5 -> "5" [] d = 6 -> "6" [] d = 7 -> "7"
              [] d = 8 -> "8" [] d = 9 -> "9"

RECURSIVE U8ToJson(_)
\* itoa: decimal digits, most significant first, no padding.
U8ToJson(n) == IF n < 10 THEN <<Digit(n)>>
               ELSE U8ToJson(n \div 10) \o <<Digit(n % 10)>>

\* serde_json writes a non-finite float as null, a finite one as its
\* shortest decimal text.
F64ToJson(x) == IF x \in NonFinite THEN <<"null">> ELSE <<x>>

\* A string in quotes, as one symbol.
StrToJson(s) == <<"\"" \o s \o "\"">>

AttributeToJson(a) ==
    <<"{\"display_type\":">> \o StrToJson(a.display_type)
    \o <<",\"trait_type\":">> \o StrToJson(a.trait_type)
    \o <<",\"value\":">> \o F64ToJson(a.value) \o <<"}">>

RECURSIVE AttributesToJson(_)
AttributesToJson(as) ==
    IF as = <<>> THEN <<>>
    ELSE AttributeToJson(Head(as))
         \o (IF Tail(as) = <<>> THEN <<>> ELSE <<",">>)
         \o AttributesToJson(Tail(as))

\* The JSON text of a player, fields in declaration order.
to_string(p) ==
    <<"{\"name\":">> \o StrToJson(p.name)
    \o <<",\"jersey_number\":">> \o U8ToJson(p.jersey_number)
    \o <<",\"overall_rating\":">> \o F64ToJson(p.overall_rating)
    \o <<",\"attributes\":[">> \o AttributesToJson(p.attributes) \o <<"]}">>

(* --------------------- FileAdder (used by cid.rs) --------------------- *)
\* sha2-256 of a rendered block, symbolic.
Sha256(block) == [sha2_256 |-> block]

\* Cid::to_bytes() of a CIDv0: multihash code 0x12, length 0x20, digest.
CidBytes(block) == <<18, 32, Sha256(block)>>

\* Length of the rendered protobuf of a block: a leaf is its data plus the
\* UnixFs framing; a link block carries one PBLink per child.
BlockLen(block) ==
    IF block.links = <<>>
    THEN (IF block.data = <<>> THEN 6 ELSE Len(block.data) + 8)
    ELSE 44 * Len(block.links) + 6

\* Mutant: the adder of the previous call is used again.
FileAdderReused == cid.adder

\* FileAdder::default(): empty buffer, no pending links.
FileAdderDefault == [block_buffer |-> <<>>, unflushed_links |-> <<>>]

\* flush_buffered_leaf: renders the buffered bytes as a leaf block and
\* records a link to it; nothing for an empty buffer unless finishing an
\* empty file.
FlushBufferedLeaf(input, links, finishing) ==
    IF input = <<>> /\ (~finishing \/ links # <<>>)
    THEN [links |-> links, blocks |-> <<>>]
    ELSE LET block == [links |-> <<>>, data |-> input, filesize |-> Len(input)]
         IN [links |-> Append(links, [target |-> CidBytes(block),
                                     file_size |-> Len(input)]),
             blocks |-> <<block>>]

\* flush_links of the balanced collector.  While pushing, a link block is
\* cut only past the branching factor (174 links), which the bounded inputs
\* never reach; when finishing, more than one pending link is collected
\* under one root link block.
RECURSIVE FileSize(_)
FileSize(links) ==
    IF links = <<>> THEN 0 ELSE Head(links).file_size + FileSize(Tail(links))

FlushBufferedLinks(links, finishing) ==
    IF finishing /\ Len(links) > 1
    THEN LET block == [links |-> links, data |-> <<>>,
                       filesize |-> FileSize(links)]
         IN [links |-> <<[target |-> CidBytes(block),
                          file_size |-> FileSize(links)]>>,
             blocks |-> <<block>>]
    ELSE [links |-> links, blocks |-> <<>>]

Min(a, b) == IF a < b THEN a ELSE b

\* Mutant: the chunker accepts the whole slice it is offered, so a chunk
\* ends where a push call ends.
PushWholeSlice(adder, input) ==
    LET buffer == adder.block_buffer \o input
        ready == Len(buffer) >= ChunkSize
    IN IF ~ready
       THEN [adder |-> [adder EXCEPT !.block_buffer = buffer],
             blocks |-> <<>>, written |-> Len(input)]
       ELSE LET flushed == FlushBufferedLeaf(buffer, adder.unflushed_links, FALSE)
            IN [adder |-> [block_buffer |-> <<>>, unflushed_links |-> flushed.links],
                blocks |-> flushed.blocks, written |-> Len(input)]

\* FileAdder::push with the size chunker: accepts what fits in the current
\* chunk, and flushes the chunk when it is full.  Returns the new adder, the
\* completed blocks and the number of bytes consumed.
Push(adder, input) ==
    LET l == Min(Len(input), ChunkSize - Len(adder.block_buffer))
        accepted == SubSeq(input, 1, l)
        buffer == adder.block_buffer \o accepted
        ready == Len(buffer) >= ChunkSize
    IN IF ~ready
       THEN [adder |-> [adder EXCEPT !.block_buffer = buffer],
             blocks |-> <<>>, written |-> l]
       ELSE LET flushed == FlushBufferedLeaf(buffer, adder.unflushed_links, FALSE)
                lnk == FlushBufferedLinks(flushed.links, FALSE)
            IN [adder |-> [block_buffer |-> <<>>, unflushed_links |-> lnk.links],
                blocks |-> flushed.blocks \o lnk.blocks, written |-> l]

\* FileAdder::finish: the last leaf, then the root link block.
Finish(adder) ==
    LET flushed == FlushBufferedLeaf(adder.block_buffer, adder.unflushed_links, TRUE)
        lnk == FlushBufferedLinks(flushed.links, TRUE)
    IN flushed.blocks \o lnk.blocks

(* ------------------------ compute_cid (cid.rs) ------------------------ *)
\* The loop of lines 79-81: one push per input byte.  The code drops what
\* push returns; the test on written only orders the evaluation (a push of
\* one byte always consumes it, the buffer being flushed as soon as full).
RECURSIVE PushAll(_, _)
PushAll(adder, input) ==
    IF input = <<>> THEN adder
    ELSE LET pushed == Push(adder, <<Head(input)>>)
         IN IF pushed.written = 1
            THEN PushAll(pushed.adder, Tail(input))
            ELSE PushAll(pushed.adder, Tail(input))

\* The loop of lines 84-93 over the blocks yielded by finish.
RECURSIVE Collect(_, _)
Collect(stats, blocks) ==
    IF blocks = <<>> THEN stats
    ELSE Collect([cid |-> CidBytes(Head(blocks)),
                  blocks |-> stats.blocks + 1,
                  bytes |-> stats.bytes + BlockLen(Head(blocks))],
                 Tail(blocks))

EmptyStats == [cid |-> <<>>, blocks |-> 0, bytes |-> 0]

\* pub fn compute_cid(input: &[u8]) -> FileStats
compute_cid_bytes(input) ==
    Collect(EmptyStats, Finish(PushAll(FileAdderDefault, input)))

\* ComputeCid::compute_cid
compute_cid(p) == compute_cid_bytes(to_string(p))

\* Cid::try_from(bytes).unwrap().to_string(): base58btc text of a CIDv0;
\* anything that is not a 0x12 0x20 multihash does not parse.
CidToString(bytes) ==
    IF Len(bytes) = 3 /\ bytes[1] = 18 /\ bytes[2] = 32
    THEN <<[base58btc |-> bytes[3]]>>
    ELSE <<>>

\* ComputeCid::cid_string
cid_string(p) == CidToString(compute_cid(p).cid)

\* ComputeCid::formatted_cid
formatted_cid(p) == <<"ipfs://">> \o cid_string(p)

\* player.formatted_cid() for every record of the model, computed once
\* (@@ makes the table an explicit one).
FormattedCid == [p \in Player |-> formatted_cid(p)] @@ <<>>

(* --------------------------- ledger and Steel ------------------------- *)
Addresses == {"0xA", "0xB"}
TokenIds == 0..MaxTokenId
Blocks == {1, 2, 3, 4}

\* The player contract's storage at each block: token -> <<owner, uri>>,
\* or <<>> for a token that is not minted (both views revert).
\*   block 1: token 0 is owned by 0xA and names the test player;
\*            token 1 is owned by 0xB and names a player rated NaN.
\*   block 2: token 0 has moved to 0xB; token 1 stores a bare CID string.
\*   block 3: token 0 stores a bare CID string; token 1 is not minted.
\*   block 4: token 0 is not minted; token 1 names the test player.
NanPlayer == [gen_test_player EXCEPT !.overall_rating = "NaN"]
TestPlayerURI == <<"ipfs://">> \o CidToString(compute_cid_bytes(to_string(gen_test_player)).cid)
NanPlayerURI == <<"ipfs://">> \o CidToString(compute_cid_bytes(to_string(NanPlayer)).cid)
BareCidURI == CidToString(compute_cid_bytes(to_string(gen_test_player)).cid)

Ledger(block, token) ==
    CASE block = 1 /\ token = 0 -> <<"0xA", TestPlayerURI>>
      [] block = 1 /\ token = 1 -> <<"0xB", NanPlayerURI>>
      [] block = 2 /\ token = 0 -> <<"0xB", TestPlayerURI>>
      [] block = 2 /\ token = 1 -> <<"0xB", BareCidURI>>
      [] block = 3 /\ token = 0 -> <<"0xA", BareCidURI>>
      [] block = 4 /\ token = 1 -> <<"0xA", TestPlayerURI>>
      [] OTHER -> <<>>

\* EthEvmInput: the witness of one block's state, committed either to the
\* execution block or to the beacon root (publisher.rs:128-133).
EvmInputs == [kind : {"Block", "Beacon"}, block : Blocks]

\* EvmEnv::commitment() / into_commitment(): version-tagged id and digest.
Commitment(input) ==
    [id |-> <<(IF input.kind = "Beacon" THEN 1 ELSE 0), input.block>>,
     digest |-> [root_of |-> input]]

\* contract.call_builder(&ownerOfCall).call().owner against the witness.
OwnerOfCall(input, token_id) ==
    LET e == Ledger(input.block, token_id)
    IN IF e = <<>> THEN "revert" ELSE e[1]

\* contract.call_builder(&tokenURICall).call().uri against the witness;
\* <<>> stands for a reverted call.
TokenURICall(input, token_id) ==
    LET e == Ledger(input.block, token_id)
    IN IF e = <<>> THEN <<>> ELSE e[2]

\* sol! struct Journal / VerifyJournal { Commitment commitment; address owner }
VerifyJournal(commitment, owner) == [commitment |-> commitment, owner |-> owner]

\* abi_encode of the static struct: three 32-byte words, the address left-
\* padded with twelve zero bytes.
AbiEncode(j) == <<j.commitment.id, j.commitment.digest, <<"pad12", j.owner>>>>

\* VerifyJournal::abi_decode(bytes, true): <<>> when the bytes are not a
\* valid encoding.
AbiDecode(bytes) ==
    IF Len(bytes) = 3 /\ bytes[3][1] = "pad12"
    THEN <<VerifyJournal([id |-> bytes[1], digest |-> bytes[2]], bytes[3][2])>>
    ELSE <<>>

VERIFY_CID_ID == "VERIFY_CID_ID"
MAKE_TEAM_ID == "MAKE_TEAM_ID"
OTHER_ID == "OTHER_ID"

Receipt(image_id, journal) == [image_id |-> image_id, journal |-> journal]

(* ----------------------- compute_cid, step by step -------------------- *)
NoAdder == [block_buffer |-> <<>>, unflushed_links |-> <<>>]

\* pushes counts the push calls of the call in progress; dropped holds the
\* blocks those calls returned, which compute_cid lets go.
CidIdle == [pc |-> "Idle", args |-> <<>>, k |-> 1, input |-> <<>>,
            adder |-> NoAdder, pushes |-> 0, dropped |-> <<>>, out |-> <<>>]

\* cid.rs:57-58 and 77: serialize the record, make a fresh adder.
CidCall ==
    /\ cid.pc = "Idle"
    /\ cid.k <= Len(cid.args)
    /\ cid' = [cid EXCEPT !.pc = "Pushing",
                          !.input = to_string(cid.args[cid.k]),
                          !.adder = FileAdderDefault,
                          !.pushes = 0,
                          !.dropped = <<>>]
    /\ UNCHANGED <<leaf, team, receipts, pub>>

\* cid.rs:79-81: one iteration of the push loop.
CidPush ==
    /\ cid.pc = "Pushing"
    /\ cid.input # <<>>
    /\ LET pushed == Push(cid.adder, <<Head(cid.input)>>)
       IN cid' = [cid EXCEPT !.adder = pushed.adder,
                             !.input = Tail(cid.input),
                             !.pushes = @ + 1,
                             !.dropped = @ \o pushed.blocks]
    /\ UNCHANGED <<leaf, team, receipts, pub>>

\* What the three methods of ComputeCid return for one FileStats
\* (cid.rs:55-72).
CidResult(stats) ==
    [compute_cid |-> stats,
     cid_string |-> CidToString(stats.cid),
     formatted_cid |-> <<"ipfs://">> \o CidToString(stats.cid)]

\* cid.rs:83-95: finish, fold the yielded blocks into FileStats, return.
CidFinish ==
    /\ cid.pc = "Pushing"
    /\ cid.input = <<>>
    /\ cid' = [cid EXCEPT !.out = Append(cid.out, CidResult(Collect(EmptyStats, Finish(cid.adder)))),
                          !.k = cid.k + 1,
                          !.pc = IF cid.k = Len(cid.args) THEN "Done" ELSE "Idle"]
    /\ UNCHANGED <<leaf, team, receipts, pub>>

(* --------------------- verify_cid.rs: the leaf guest ------------------ *)
LeafIds == 1..MaxLeafRuns

LeafIdle == [pc |-> "Idle", args |-> <<>>, owner |-> "", player_cid |-> <<>>,
             journal |-> <<>>, error |-> ""]

\* Lines 26-34: the three inputs are read and the EVM environment is built.
VerifyCidBegin(chain_config, player, token_id) ==
    [LeafIdle EXCEPT !.pc = "Executing", !.args = <<chain_config, player, token_id>>]

LeafFailed(run, why) == [run EXCEPT !.pc = "Failed", !.error = why]

\* Mutant: only the CID text is compared, not the whole URI.
AssertCidText(expected_cid, player_cid) ==
    expected_cid[Len(expected_cid)] = player_cid[Len(player_cid)]

\* Lines 46-50: assert!(expected_cid == player_cid, ...).
AssertCid(expected_cid, player_cid) == expected_cid = player_cid

\* Mutant: the journal names the contract instead of the owner read.
LeafJournalOfContract(run) ==
    VerifyJournal(Commitment(run.args[1]), "0xca991c3210075409787fe2a625c22b27fbA098f6")

\* Lines 52-55: Journal { commitment: env.into_commitment(), owner }.
LeafJournal(run) == VerifyJournal(Commitment(run.args[1]), run.owner)

\* Mutant: the owner read by a run still in flight for the same token is
\* taken over instead of being read from the run's own input.
LeafOwnerOfCached(l) ==
    /\ leaf[l].pc = "Executing"
    /\ leaf[l].owner = ""
    /\ LET inflight == {m \in LeafIds \ {l} :
                          /\ leaf[m].pc \in {"Executing", "Asserting", "Proving"}
                          /\ leaf[m].owner # ""
                          /\ leaf[m].args[3] = leaf[l].args[3]}
           owner == IF inflight = {}
                    THEN OwnerOfCall(leaf[l].args[1], leaf[l].args[3])
                    ELSE leaf[CHOOSE m \in inflight : TRUE].owner
       IN leaf' = [leaf EXCEPT ![l] =
                     IF owner = "revert"
                     THEN LeafFailed(@, "execution reverted")
                     ELSE [@ EXCEPT !.owner = owner]]
    /\ UNCHANGED <<cid, team, receipts, pub>>

\* Lines 36-39: the verified ownerOf read; a reverted call panics.
LeafOwnerOf(l) ==
    /\ leaf[l].pc = "Executing"
    /\ leaf[l].owner = ""
    /\ LET owner == OwnerOfCall(leaf[l].args[1], leaf[l].args[3])
       IN leaf' = [leaf EXCEPT ![l] =
                     IF owner = "revert"
                     THEN LeafFailed(@, "execution reverted")
                     ELSE [@ EXCEPT !.owner = owner]]
    /\ UNCHANGED <<cid, team, receipts, pub>>

\* Mutant: the journal is committed as soon as both reads are done, before
\* the assertion.
LeafTokenURICommitsEarly(l) ==
    /\ leaf[l].pc = "Executing"
    /\ leaf[l].owner # ""
    /\ LET uri == TokenURICall(leaf[l].args[1], leaf[l].args[3])
       IN leaf' = [leaf EXCEPT ![l] =
                     IF uri = <<>>
                     THEN LeafFailed(@, "execution reverted")
                     ELSE [@ EXCEPT !.player_cid = uri, !.pc = "Asserting",
                                    !.journal = AbiEncode(LeafJournal(leaf[l]))]]
    /\ UNCHANGED <<cid, team, receipts, pub>>

\* Lines 41-44: the verified tokenURI read.
LeafTokenURI(l) ==
    /\ leaf[l].pc = "Executing"
    /\ leaf[l].owner # ""
    /\ LET uri == TokenURICall(leaf[l].args[1], leaf[l].args[3])
       IN leaf' = [leaf EXCEPT ![l] =
                     IF uri = <<>>
                     THEN LeafFailed(@, "execution reverted")
                     ELSE [@ EXCEPT !.player_cid = uri, !.pc = "Asserting"]]
    /\ UNCHANGED <<cid, team, receipts, pub>>

\* Lines 46-57: the CID assertion, then the journal is built and committed.
LeafAssert(l) ==
    /\ leaf[l].pc = "Asserting"
    /\ LET expected_cid == FormattedCid[leaf[l].args[2]]
       IN leaf' = [leaf EXCEPT ![l] =
                     IF AssertCid(expected_cid, leaf[l].player_cid)
                     THEN [@ EXCEPT !.journal = AbiEncode(LeafJournal(leaf[l])),
                                    !.pc = "Proving"]
                     ELSE LeafFailed(@, "Player CID does not match on-chain data")]
    /\ UNCHANGED <<cid, team, receipts, pub>>

\* prove_info.receipt of a finished leaf task: VERIFY_CID over its journal.
LeafReceipt(run) == Receipt(VERIFY_CID_ID, run.journal)

\* prove_with_ctx returns Ok.
LeafProved(l) ==
    /\ leaf[l].pc = "Proving"
    /\ leaf' = [leaf EXCEPT ![l] = [@ EXCEPT !.pc = "Done"]]
    /\ UNCHANGED <<cid, team, receipts, pub>>

\* prove_with_ctx returns Err: the proving backend failed.
LeafProverFault(l) ==
    /\ leaf[l].pc = "Proving"
    /\ leaf' = [leaf EXCEPT ![l] = LeafFailed(@, "prover backend error")]
    /\ UNCHANGED <<cid, team, receipts, pub>>

LeafStep(l) ==
    \/ LeafOwnerOf(l)
    \/ LeafTokenURI(l)
    \/ LeafAssert(l)
    \/ LeafProved(l)
    \/ LeafProverFault(l)

(* ------------------- make_team.rs: the aggregate guest ---------------- *)
TeamSize == 11
TeamIndex == 0..(TeamSize - 1)

TeamIdle == [pc |-> "Idle", args |-> <<>>, assumptions |-> {}, i |-> 0,
             expected |-> <<>>, journal |-> <<>>, error |-> <<>>]

\* Lines 33-40: chain_config, owner, players and token_ids are read and the
\* EVM environment is built; the receipts given to add_assumption stand by.
MakeTeamBegin(chain_config, owner, players, token_ids, assumptions) ==
    [TeamIdle EXCEPT !.pc = "Verifying",
                     !.args = <<chain_config, owner, players, token_ids>>,
                     !.assumptions = assumptions]

\* Mutant: the expected commitment is copied from a leaf receipt given as
\* an assumption, when there is one.
ExpectedJournalOfLeaf(run) ==
    LET given == {r \in run.assumptions :
                    r.image_id = VERIFY_CID_ID /\ AbiDecode(r.journal) # <<>>}
    IN IF given = {}
       THEN VerifyJournal(Commitment(run.args[1]), run.args[2])
       ELSE VerifyJournal(AbiDecode((CHOOSE r \in given : TRUE).journal)[1].commitment,
                          run.args[2])

\* Mutant: the owner expected at index i is the owner the contract stores
\* for token_ids[i].
ExpectedJournalOfToken(run) ==
    VerifyJournal(Commitment(run.args[1]), OwnerOfCall(run.args[1], run.args[4][run.i]))

\* Lines 46-49: VerifyJournal { commitment: env.commitment().clone(), owner }.
ExpectedJournal(run) == VerifyJournal(Commitment(run.args[1]), run.args[2])

\* Mutant: the image id of the receipt is not looked at.
EnvVerifyAnyImage(assumptions, image_id, journal) ==
    \E r \in assumptions : r.journal = journal

\* Line 51, env::verify(image_id, journal): some receipt given as an
\* assumption is of that image and has exactly those journal bytes.
EnvVerify(assumptions, image_id, journal) ==
    \E r \in assumptions : r.image_id = image_id /\ r.journal = journal

\* Lines 42-52: one iteration of the loop.  A verification that cannot be
\* resolved ends the execution; the fault names the claim that was asked
\* for, which is all env::verify is given.
MakeTeamLoopBody(run) ==
    LET verifyJournal == ExpectedJournal(run)
        bytes == AbiEncode(verifyJournal)
    IN IF EnvVerify(run.assumptions, VERIFY_CID_ID, bytes)
       THEN [run EXCEPT !.i = run.i + 1,
                        !.expected = Append(@, verifyJournal)]
       ELSE [run EXCEPT !.pc = "Failed",
                        !.expected = Append(@, verifyJournal),
                        !.error = <<[kind |-> "assumption not resolved",
                                     image_id |-> VERIFY_CID_ID,
                                     journal |-> bytes]>>]

TeamVerify ==
    /\ team.pc = "Verifying"
    /\ team.i < TeamSize
    /\ team' = MakeTeamLoopBody(team)
    /\ UNCHANGED <<cid, leaf, receipts, pub>>

\* Lines 54-77: everything after the loop is commented out; main returns
\* without committing anything.
TeamExit ==
    /\ team.pc = "Verifying"
    /\ team.i = TeamSize
    /\ team' = [team EXCEPT !.pc = "Proving"]
    /\ UNCHANGED <<cid, leaf, receipts, pub>>

\* make_team_proof.receipt of a finished task: MAKE_TEAM over its journal.
TeamReceipt(run) == Receipt(MAKE_TEAM_ID, run.journal)

\* prove_with_ctx returns Ok.
TeamProved ==
    /\ team.pc = "Proving"
    /\ team' = [team EXCEPT !.pc = "Done"]
    /\ UNCHANGED <<cid, leaf, receipts, pub>>

\* prove_with_ctx returns Err: the proving backend failed.
TeamProverFault ==
    /\ team.pc = "Proving"
    /\ team' = [team EXCEPT !.pc = "Failed", !.error = <<[kind |-> "prover backend error",
                                         image_id |-> MAKE_TEAM_ID,
                                         journal |-> team.journal]>>]
    /\ UNCHANGED <<cid, leaf, receipts, pub>>

TeamStep == TeamVerify \/ TeamExit \/ TeamProved \/ TeamProverFault

(* ------------------- a host that runs the two guests ------------------ *)
\* Records the host proves leaves for.
Messi7 == [gen_test_player EXCEPT !.jersey_number = 7]
InfPlayer == [gen_test_player EXCEPT !.overall_rating = "inf"]
Roster == {gen_test_player, Messi7, NanPlayer, InfPlayer}

\* [Player; 11] and [U256; 11] inputs of the aggregate.
TeamPlayers == {[i \in TeamIndex |-> gen_test_player],
                [i \in TeamIndex |-> IF i = 0 THEN NanPlayer ELSE gen_test_player]}
TokenIdArrays == {[i \in TeamIndex |-> 0],
                  [i \in TeamIndex |-> i % (MaxTokenId + 1)]}

\* Receipts of some other guest program, whatever journal it committed.
ForeignReceipts ==
    {Receipt(OTHER_ID, AbiEncode(VerifyJournal(Commitment(c), o))) :
        c \in {[kind |-> "Block", block |-> 1]}, o \in Addresses}
    \cup {Receipt(OTHER_ID, <<>>)}

AllIdle == /\ \A l \in LeafIds : leaf[l].pc = "Idle"
           /\ team.pc = "Idle"

\* ExecutorEnv::builder().write(input).write(player).write(token_id) and
\* prove VERIFY_CID_ELF, for any input the host may choose.
HostProveLeaf(l, chain_config, player, token_id) ==
    /\ AllIdle
    /\ leaf' = [leaf EXCEPT ![l] = VerifyCidBegin(chain_config, player, token_id)]
    /\ UNCHANGED <<cid, team, receipts, pub>>

\* The host keeps the receipt of a finished leaf task and frees the task.
HostKeepReceipt(l) ==
    /\ leaf[l].pc = "Done"
    /\ Cardinality(receipts \cup {LeafReceipt(leaf[l])}) <= MaxReceipts
    /\ receipts' = receipts \cup {LeafReceipt(leaf[l])}
    /\ leaf' = [leaf EXCEPT ![l] = LeafIdle]
    /\ UNCHANGED <<cid, team, pub>>

\* The host abandons a finished or failed leaf task.
HostDropLeaf(l) ==
    /\ leaf[l].pc \in {"Done", "Failed"}
    /\ leaf' = [leaf EXCEPT ![l] = LeafIdle]
    /\ UNCHANGED <<cid, team, receipts, pub>>

\* The host obtains a receipt of another program.
HostForeignReceipt(r) ==
    /\ AllIdle
    /\ r \notin receipts
    /\ Cardinality(receipts) < MaxReceipts
    /\ receipts' = receipts \cup {r}
    /\ UNCHANGED <<cid, leaf, team, pub>>

\* The host discards a receipt it holds.
HostDiscard(r) ==
    /\ AllIdle
    /\ r \in receipts
    /\ receipts' = receipts \ {r}
    /\ UNCHANGED <<cid, leaf, team, pub>>

\* ExecutorEnv::builder().write(..) x4, add_assumption for every receipt
\* held, and prove MAKE_TEAM_ELF, for any input the host may choose.
HostProveTeam(chain_config, owner, players, token_ids) ==
    /\ AllIdle
    /\ team' = MakeTeamBegin(chain_config, owner, players, token_ids, receipts)
    /\ UNCHANGED <<cid, leaf, receipts, pub>>

(* -------------------------- publisher.rs main() ----------------------- *)
PubIdle == [pc |-> "Start", evm_input |-> <<>>, cloned_evm_input |-> <<>>,
            receipt |-> <<>>, journal |-> <<>>, error |-> ""]

\* Line 105.
token_id == 0

PubErr(why) == [pub EXCEPT !.pc = "Err", !.error = why]

\* Lines 107-134: the environment is built at the parent of the latest
\* block, whichever that is; ownerOf and tokenURI are preflighted (a revert
\* ends main with the error); the input is taken for the execution block or
\* for the beacon root, and cloned.
PubPreflight(kind, block) ==
    /\ pub.pc = "Start"
    /\ LET input == [kind |-> kind, block |-> block]
       IN pub' = IF OwnerOfCall(input, token_id) = "revert"
                    \/ TokenURICall(input, token_id) = <<>>
                 THEN PubErr("execution reverted")
                 ELSE [pub EXCEPT !.pc = "Preflighted",
                                  !.evm_input = <<input>>,
                                  !.cloned_evm_input = <<input>>]
    /\ UNCHANGED <<cid, leaf, team, receipts>>

\* Lines 107-133: the RPC or beacon endpoint fails one of the awaits.
PubPreflightFail ==
    /\ pub.pc = "Start"
    /\ pub' = PubErr("provider error")
    /\ UNCHANGED <<cid, leaf, team, receipts>>

\* Lines 136-150: the leaf proving task is spawned on a blocking worker.
PubSpawnLeaf ==
    /\ pub.pc = "Preflighted"
    /\ leaf' = [leaf EXCEPT ![1] =
                  VerifyCidBegin(pub.evm_input[1], gen_test_player, token_id)]
    /\ pub' = [pub EXCEPT !.pc = "AwaitLeaf", !.evm_input = <<>>]
    /\ UNCHANGED <<cid, team, receipts>>

\* Mutant: the task is not awaited to its end.
LeafAwaitedEarly == leaf[1].pc \in {"Proving", "Done"}

\* Lines 151-152: .await?.context(..)? yields the prove info once the task
\* has returned Ok.
LeafAwaited == leaf[1].pc = "Done"

\* Lines 151-163: the receipt is taken and its journal decoded.
PubLeafJoined ==
    /\ pub.pc = "AwaitLeaf"
    /\ LeafAwaited
    /\ LET receipt == LeafReceipt(leaf[1])
           journal == AbiDecode(receipt.journal)
       IN pub' = IF journal = <<>>
                 THEN PubErr("invalid journal")
                 ELSE [pub EXCEPT !.pc = "LeafDone", !.receipt = <<receipt>>,
                                  !.journal = journal]
    /\ UNCHANGED <<cid, leaf, team, receipts>>

\* Lines 151-152: the task returned Err (or panicked); main returns it.
PubLeafFailed ==
    /\ pub.pc = "AwaitLeaf"
    /\ leaf[1].pc = "Failed"
    /\ pub' = PubErr("failed to create CID verification proof")
    /\ UNCHANGED <<cid, leaf, team, receipts>>

\* Mutant: the owner written for the aggregate is the address of the
\* publisher's own wallet, not the owner decoded from the leaf journal.
PubSpawnTeamWalletOwner ==
    /\ pub.pc = "LeafDone"
    /\ team' = MakeTeamBegin(pub.cloned_evm_input[1], "0xB",
                             [i \in TeamIndex |-> gen_test_player],
                             [i \in TeamIndex |-> token_id],
                             {pub.receipt[1]})
    /\ pub' = [pub EXCEPT !.pc = "AwaitTeam", !.receipt = <<>>,
                          !.cloned_evm_input = <<>>]
    /\ UNCHANGED <<cid, leaf, receipts>>

\* Lines 165-176: eleven test players, eleven copies of token_id, the cloned
\* input, the owner decoded from the leaf journal, and the one leaf receipt
\* as the only assumption.
PubSpawnTeam ==
    /\ pub.pc = "LeafDone"
    /\ team' = MakeTeamBegin(pub.cloned_evm_input[1], pub.journal[1].owner,
                             [i \in TeamIndex |-> gen_test_player],
                             [i \in TeamIndex |-> token_id],
                             {pub.receipt[1]})
    /\ pub' = [pub EXCEPT !.pc = "AwaitTeam", !.receipt = <<>>,
                          !.cloned_evm_input = <<>>]
    /\ UNCHANGED <<cid, leaf, receipts>>

\* Lines 184-191: the aggregate receipt is taken; main returns Ok(()).
PubTeamJoined ==
    /\ pub.pc = "AwaitTeam"
    /\ team.pc = "Done"
    /\ pub' = [pub EXCEPT !.pc = "Ok", !.receipt = <<TeamReceipt(team)>>]
    /\ UNCHANGED <<cid, leaf, team, receipts>>

\* Lines 184-185: the aggregate task returned Err; main returns it.
PubTeamFailed ==
    /\ pub.pc = "AwaitTeam"
    /\ team.pc = "Failed"
    /\ pub' = PubErr("failed to make team create proof")
    /\ UNCHANGED <<cid, leaf, team, receipts>>

PubNext ==
    \/ \E k \in {"Block", "Beacon"}, b \in Blocks : PubPreflight(k, b)
    \/ PubPreflightFail
    \/ PubSpawnLeaf
    \/ LeafStep(1)
    \/ PubLeafJoined
    \/ PubLeafFailed
    \/ PubSpawnTeam
    \/ TeamStep
    \/ PubTeamJoined
    \/ PubTeamFailed

Init ==
    /\ cid = CidIdle
    /\ leaf = [l \in LeafIds |-> LeafIdle]
    /\ team = TeamIdle
    /\ receipts = {}
    /\ pub = PubIdle

Next ==
    \/ \E l \in LeafIds, c \in EvmInputs, p \in Roster, t \in TokenIds :
          HostProveLeaf(l, c, p, t)
    \/ \E l \in LeafIds : LeafStep(l)
    \/ \E l \in LeafIds : HostKeepReceipt(l)
    \/ \E l \in LeafIds : HostDropLeaf(l)
    \/ \E r \in ForeignReceipts : HostForeignReceipt(r)
    \/ \E r \in receipts : HostDiscard(r)
    \/ \E c \in EvmInputs, o \in Addresses, ps \in TeamPlayers, ts \in TokenIdArrays :
          HostProveTeam(c, o, ps, ts)
    \/ TeamStep

Spec == Init /\ [][Next]_vars

\* One run of the publisher.
PubSpec == Init /\ [][PubNext]_vars

\* One run of the publisher, the blocking worker running the leaf task it
\* was given (task::spawn_blocking) until the task returns.
PubFairSpec == PubSpec /\ WF_vars(LeafStep(1))

(* --------------------- two compute_cid calls in a row ----------------- *)
CidInit ==
    /\ cid \in {[CidIdle EXCEPT !.args = <<r1, r2>>] : r1 \in Player, r2 \in Player}
    /\ leaf = [l \in LeafIds |-> LeafIdle]
    /\ team = TeamIdle
    /\ receipts = {}
    /\ pub = PubIdle

CidNext == CidCall \/ CidPush \/ CidFinish

CidSpec == CidInit /\ [][CidNext]_vars

(* ---------------- leaf proving tasks side by side, and retried --------- *)
\* Mutant: a task spawned while another is in flight shares that task's
\* environment, the owner already read included.
HostSpawnLeafSharedEnv(l, chain_config, player, token) ==
    /\ leaf[l].pc = "Idle"
    /\ LET inflight == {m \in LeafIds \ {l} :
                          leaf[m].pc \in {"Executing", "Asserting", "Proving"}}
       IN leaf' = [leaf EXCEPT ![l] =
                     IF inflight = {}
                     THEN VerifyCidBegin(chain_config, player, token)
                     ELSE [VerifyCidBegin(chain_config, player, token)
                             EXCEPT !.owner = leaf[CHOOSE m \in inflight : TRUE].owner]]
    /\ UNCHANGED <<cid, team, receipts, pub>>

\* publisher.rs:136-150, any number of times: a proving task is spawned on a
\* blocking worker with its own ExecutorEnv, whatever the other workers do.
HostSpawnLeaf(l, chain_config, player, token) ==
    /\ leaf[l].pc = "Idle"
    /\ leaf' = [leaf EXCEPT ![l] = VerifyCidBegin(chain_config, player, token)]
    /\ UNCHANGED <<cid, team, receipts, pub>>

\* The caller lets go of a task, at whatever point it is; nothing is kept.
HostAbandonLeaf(l) ==
    /\ leaf[l].pc # "Idle"
    /\ leaf' = [leaf EXCEPT ![l] = LeafIdle]
    /\ UNCHANGED <<cid, team, receipts, pub>>

LeafNext ==
    \/ \E l \in LeafIds, c \in EvmInputs, p \in Roster, t \in TokenIds :
          HostSpawnLeaf(l, c, p, t)
    \/ \E l \in LeafIds : LeafStep(l)
    \/ \E l \in LeafIds : HostAbandonLeaf(l)

LeafSpec == Init /\ [][LeafNext]_vars

(* ------- compute_cid on raw bytes, then the same bytes fed in slices --- *)
ByteValues == {0, 1}
ByteInputs == UNION {[1..n -> ByteValues] : n \in 0..MaxInputLen}

\* cid.rs:76-77: compute_cid(input) is entered with a byte slice.
CidCallBytes ==
    /\ cid.pc = "Idle"
    /\ cid.k = 1
    /\ cid' = [cid EXCEPT !.pc = "Pushing",
                          !.input = cid.args[1],
                          !.adder = FileAdderDefault,
                          !.pushes = 0,
                          !.dropped = <<>>]
    /\ UNCHANGED <<leaf, team, receipts, pub>>

\* A caller that feeds a fresh adder in slices of its own choosing.
SplitCall ==
    /\ cid.pc = "Idle"
    /\ cid.k = 2
    /\ cid' = [cid EXCEPT !.pc = "Splitting",
                          !.input = cid.args[2],
                          !.adder = FileAdderDefault,
                          !.pushes = 0]
    /\ UNCHANGED <<leaf, team, receipts, pub>>

\* One push of the next n bytes; the caller goes on after the bytes the
\* adder consumed (the second component of what push returns).
SplitPush(n) ==
    /\ cid.pc = "Splitting"
    /\ n \in 1..Len(cid.input)
    /\ LET pushed == Push(cid.adder, SubSeq(cid.input, 1, n))
       IN cid' = [cid EXCEPT !.adder = pushed.adder,
                             !.input = SubSeq(cid.input, pushed.written + 1, Len(cid.input)),
                             !.pushes = @ + 1]
    /\ UNCHANGED <<leaf, team, receipts, pub>>

\* finish and the fold of cid.rs:83-95 over what it yields.
SplitFinish ==
    /\ cid.pc = "Splitting"
    /\ cid.input = <<>>
    /\ cid' = [cid EXCEPT !.out = Append(cid.out, CidResult(Collect(EmptyStats, Finish(cid.adder)))),
                          !.pc = "Done"]
    /\ UNCHANGED <<leaf, team, receipts, pub>>

ByteInit ==
    /\ cid \in {[CidIdle EXCEPT !.args = <<b, b>>] : b \in ByteInputs}
    /\ leaf = [l \in LeafIds |-> LeafIdle]
    /\ team = TeamIdle
    /\ receipts = {}
    /\ pub = PubIdle

ByteNext ==
    \/ CidCallBytes
    \/ CidPush
    \/ CidFinish
    \/ SplitCall
    \/ \E n \in 1..MaxInputLen : SplitPush(n)
    \/ SplitFinish

ByteSpec == ByteInit /\ [][ByteNext]_vars

(* ------------------------------ properties ---------------------------- *)
\* What the contract stores for the token a leaf run was given.
StoredURI(run) == Ledger(run.args[1].block, run.args[3])

Started(run) == run.pc # "Idle"

\* C1 (leaf soundness): a leaf run whose token's stored URI is "ipfs://"
\* followed by the CID string of its record is never failed by the guest,
\* and the journal it commits decodes to the owner the contract stores for
\* that token and to the commitment of the run's own snapshot.
LeafSoundness ==
    \A l \in LeafIds :
        (/\ Started(leaf[l])
         /\ StoredURI(leaf[l]) # <<>>
         /\ StoredURI(leaf[l])[2] = <<"ipfs://">> \o cid_string(leaf[l].args[2]))
        => /\ leaf[l].pc = "Failed" => leaf[l].error = "prover backend error"
           /\ leaf[l].pc \in {"Proving", "Done"} =>
                /\ AbiDecode(leaf[l].journal) # <<>>
                /\ AbiDecode(leaf[l].journal)[1].owner = StoredURI(leaf[l])[1]
                /\ AbiDecode(leaf[l].journal)[1].commitment = Commitment(leaf[l].args[1])

\* A leaf run for token 1 (owned by 0xB) has completed and been proved.
LeafSoundnessWitness ==
    \E l \in LeafIds :
        /\ leaf[l].pc = "Done"
        /\ leaf[l].args[3] = 1
        /\ AbiDecode(leaf[l].journal)[1].owner = "0xB"

\* C2 (leaf completeness-negative): a leaf run whose token's stored URI
\* differs from the formatted CID of its record never commits a journal and
\* never reaches proving; when it has failed, it failed at the assertion.
LeafRejectsMismatch ==
    \A l \in LeafIds :
        (/\ Started(leaf[l])
         /\ StoredURI(leaf[l]) # <<>>
         /\ StoredURI(leaf[l])[2] # <<"ipfs://">> \o cid_string(leaf[l].args[2]))
        => /\ leaf[l].pc \notin {"Proving", "Done"}
           /\ leaf[l].journal = <<>>
           /\ leaf[l].pc = "Failed" =>
                leaf[l].error = "Player CID does not match on-chain data"

\* A run with the right record against a URI that lacks the prefix failed.
LeafRejectsMismatchWitness ==
    \E l \in LeafIds :
        /\ leaf[l].pc = "Failed"
        /\ leaf[l].args[2] = gen_test_player
        /\ leaf[l].player_cid = BareCidURI
        /\ leaf[l].error = "Player CID does not match on-chain data"

\* The bytes the aggregate run must find among its assumptions.
ExpectedBytes(run) ==
    <<Commitment(run.args[1]).id, Commitment(run.args[1]).digest, <<"pad12", run.args[2]>>>>

Resolvable(run) ==
    \E r \in run.assumptions :
        r.image_id = VERIFY_CID_ID /\ r.journal = ExpectedBytes(run)

\* C3 (aggregate soundness, as claimed): the aggregate run passes its
\* verifications only if every leaf receipt supplied to it has the journal
\* {the aggregate's own commitment, the claimed owner}.
AggregateSoundness ==
    team.pc \in {"Proving", "Done"} =>
        \A r \in team.assumptions :
            r.image_id = VERIFY_CID_ID => r.journal = ExpectedBytes(team)

\* C4 (assumption acceptance rule): a verification step of the aggregate
\* run has been accepted only if some assumption is a VERIFY_CID receipt
\* with exactly the expected journal bytes, is refused only if there is
\* none, and the run gets past the loop only with all eleven accepted.
AssumptionAcceptance ==
    Started(team) =>
        /\ team.i > 0 => Resolvable(team)
        /\ (team.pc = "Failed" /\ team.error[1].kind = "assumption not resolved")
              => ~Resolvable(team)
        /\ team.pc \in {"Proving", "Done"} => team.i = TeamSize

\* A verification was refused although a receipt of another program with
\* the very journal bytes was among the assumptions.
AssumptionAcceptanceWitness ==
    /\ team.pc = "Failed"
    /\ team.error[1].kind = "assumption not resolved"
    /\ \E r \in team.assumptions :
          r.image_id = OTHER_ID /\ r.journal = ExpectedBytes(team)

\* C5 (expected-journal invariant): every expected journal the aggregate
\* run has built carries the commitment of the run's own input and the
\* owner it read, one per loop iteration.
ExpectedJournalInvariant ==
    Started(team) =>
        /\ \A k \in 1..Len(team.expected) :
              /\ team.expected[k].commitment = Commitment(team.args[1])
              /\ team.expected[k].owner = team.args[2]
        /\ Len(team.expected) =
              team.i + (IF team.pc = "Failed" /\ team.i < TeamSize
                           /\ team.error[1].kind = "assumption not resolved"
                        THEN 1 ELSE 0)

\* All eleven expected journals were built while a leaf receipt made under
\* another commitment was among the assumptions.
ExpectedJournalWitness ==
    /\ team.i = TeamSize
    /\ Len(team.expected) = TeamSize
    /\ \E r \in team.assumptions :
          /\ r.image_id = VERIFY_CID_ID
          /\ AbiDecode(r.journal) # <<>>
          /\ AbiDecode(r.journal)[1].commitment # Commitment(team.args[1])

\* C6 (aggregate output, as claimed): once all eleven verifications have
\* passed, the journal holds the run's commitment, a 32-byte team CID and
\* the eleven token ids in input order.
AggregateOutput ==
    team.pc \in {"Proving", "Done"} =>
        /\ Len(team.journal) = 3 + TeamSize
        /\ team.journal[1] = Commitment(team.args[1]).id
        /\ team.journal[2] = Commitment(team.args[1]).digest
        /\ \A i \in TeamIndex : team.journal[4 + i] = team.args[4][i]

\* C7 (stage ordering): in a run of the publisher the aggregate task exists
\* only once the leaf task is Done, and its only assumption is that task's
\* receipt; with the leaf task failed there is no aggregate task.
StageOrdering ==
    /\ Started(team) =>
          /\ leaf[1].pc = "Done"
          /\ team.assumptions = {LeafReceipt(leaf[1])}
    /\ leaf[1].pc = "Failed" => team.pc = "Idle" /\ pub.pc \in {"AwaitLeaf", "Err"}
    /\ pub.pc \in {"LeafDone", "AwaitTeam", "Ok"} => leaf[1].pc = "Done"

\* The publisher ran both stages to the end.
StageOrderingWitness ==
    /\ pub.pc = "Ok"
    /\ team.pc = "Done"
    /\ leaf[1].pc = "Done"

\* C8 (assumption-failure reporting, as claimed): a refused verification
\* leaves no journal, and the error reported names the index at which it
\* was refused.
AssumptionFailureReporting ==
    (team.pc = "Failed" /\ team.error[1].kind = "assumption not resolved") =>
        /\ team.journal = <<>>
        /\ "index" \in DOMAIN team.error[1]
        /\ team.error[1].index = team.i

\* C9 (identifier determinism): of two calls in a row, on the same record or
\* on records with the same serialized bytes, the second returns what the
\* first returned, for compute_cid, cid_string and formatted_cid alike.
IdentifierDeterminism ==
    (cid.pc = "Done" /\ to_string(cid.args[1]) = to_string(cid.args[2]))
        => cid.out[1] = cid.out[2]

\* Both calls were made on the test player.
IdentifierDeterminismWitness ==
    /\ cid.pc = "Done"
    /\ cid.args = <<gen_test_player, gen_test_player>>
    /\ Len(cid.out) = 2

\* C10 (identifier sensitivity, as claimed): two records that differ in any
\* field get different identifiers.
IdentifierSensitivity ==
    (cid.pc = "Done" /\ cid.args[1] # cid.args[2])
        => cid.out[1].compute_cid.cid # cid.out[2].compute_cid.cid

\* The number of verifications of an aggregate run that receipt r has
\* discharged so far.
Discharged(run, r) ==
    Cardinality({k \in 1..run.i :
                    /\ r.image_id = VERIFY_CID_ID
                    /\ r.journal = AbiEncode(run.expected[k])})

\* C11 (leaf-proof consumption, as claimed): in a run of the publisher the
\* leaf receipt is held by main until it is handed over once as an
\* assumption, and no receipt given as an assumption discharges more than
\* one verification of the aggregate run.
LeafProofConsumption ==
    /\ Started(team) => pub.receipt = <<>> \/ pub.pc = "Ok"
    /\ \A r \in team.assumptions : Discharged(team, r) <= 1

\* The steps a leaf run may take, as pairs of states.
LeafMoves ==
    {<<"Idle", "Executing">>, <<"Executing", "Executing">>,
     <<"Executing", "Asserting">>, <<"Asserting", "Proving">>,
     <<"Proving", "Done">>, <<"Executing", "Failed">>,
     <<"Asserting", "Failed">>, <<"Proving", "Failed">>}

\* C12 (leaf state machine): a leaf run of the publisher moves only along
\* Idle -> Executing -> Asserting -> Proving -> Done or into Failed; its
\* journal is written only by the step that leaves Asserting, with the owner
\* and the URI read and the assertion true; nothing changes once it is Done
\* or Failed; and a run that has started ends Done or Failed.
LeafStateMachine ==
    /\ [][\A l \in LeafIds :
            leaf'[l] # leaf[l] =>
                /\ <<leaf[l].pc, leaf'[l].pc>> \in LeafMoves
                /\ leaf[l].pc \notin {"Done", "Failed"}
                /\ leaf'[l].journal # leaf[l].journal =>
                      leaf[l].pc = "Asserting" /\ leaf'[l].pc = "Proving"]_leaf
    /\ [](\A l \in LeafIds :
            leaf[l].journal # <<>> =>
                /\ leaf[l].pc \in {"Proving", "Done", "Failed"}
                /\ leaf[l].owner # ""
                /\ leaf[l].player_cid # <<>>
                /\ leaf[l].player_cid = formatted_cid(leaf[l].args[2]))
    /\ \A l \in LeafIds :
          (leaf[l].pc # "Idle") ~> (leaf[l].pc \in {"Done", "Failed"})

\* The publisher's leaf task failed its assertion and main has not yet
\* looked at it.
LeafStateMachineWitness ==
    /\ pub.pc = "AwaitLeaf"
    /\ leaf[1].pc = "Failed"
    /\ leaf[1].error = "Player CID does not match on-chain data"
    /\ leaf[1].owner # ""
    /\ leaf[1].journal = <<>>

\* C13 (chunk-boundary independence): the identifier compute_cid returns for
\* a byte sequence, fed one byte per push, is the identifier obtained by
\* feeding the same bytes to a fresh adder in any other slices.
ChunkBoundaryIndependence ==
    (cid.pc = "Done" /\ Len(cid.out) = 2 /\ cid.args[1] = cid.args[2])
        => cid.out[1].compute_cid.cid = cid.out[2].compute_cid.cid

\* An input of more than two chunks was fed the second time in fewer push
\* calls than it has bytes.
ChunkBoundaryWitness ==
    /\ cid.pc = "Done"
    /\ Len(cid.out) = 2
    /\ Len(cid.args[1]) > 2 * ChunkSize
    /\ cid.pushes < Len(cid.args[1])

Terminal(run) == run.pc \in {"Done", "Failed"}

\* C14 (retry determinism, as claimed): two leaf runs with identical inputs
\* that have both ended are both Done with byte-identical journals, or both
\* Failed.
RetryDeterminism ==
    \A l, m \in LeafIds :
        (Terminal(leaf[l]) /\ Terminal(leaf[m]) /\ leaf[l].args = leaf[m].args)
        => \/ leaf[l].pc = "Done" /\ leaf[m].pc = "Done"
              /\ leaf[l].journal = leaf[m].journal
           \/ leaf[l].pc = "Failed" /\ leaf[m].pc = "Failed"

\* What the guest program made of a run that is past its execution: the
\* journal it committed, or the panic it ended with.
GuestOutcome(run) ==
    IF run.pc = "Failed" /\ run.error # "prover backend error"
    THEN <<"panic", run.error>>
    ELSE <<"journal", run.journal>>

\* C14 (retry determinism, amended): two leaf runs with identical inputs
\* that are both past the guest's execution have the same guest outcome,
\* the byte-identical journal or the same panic; a run whose guest panicked
\* is never matched by a run with the same inputs that is Proving or Done.
\* Only a prover backend error may end one of them Failed and the other
\* Done.
RetryGuestDeterminism ==
    \A l, m \in LeafIds :
        (/\ leaf[l].pc \in {"Proving", "Done", "Failed"}
         /\ leaf[m].pc \in {"Proving", "Done", "Failed"}
         /\ leaf[l].args = leaf[m].args)
        => /\ GuestOutcome(leaf[l]) = GuestOutcome(leaf[m])
           /\ (leaf[l].pc = "Done" /\ leaf[m].pc = "Done")
                 => leaf[l].journal = leaf[m].journal
           /\ (leaf[l].pc = "Failed" /\ leaf[l].error # "prover backend error")
                 => leaf[m].pc = "Failed" /\ leaf[m].error = leaf[l].error

\* A run that failed its assertion was made again with the same inputs and
\* failed its assertion again.
RetryWitness ==
    /\ leaf[1].pc = "Failed"
    /\ leaf[2].pc = "Failed"
    /\ leaf[1].args = leaf[2].args
    /\ leaf[1].error = "Player CID does not match on-chain data"
    /\ leaf[2].error = "Player CID does not match on-chain data"

\* The ways a leaf run on inputs c, p, t can end when it is the only one:
\* what verify_cid.rs computes from its three inputs, then the prover.
VerifyCidAlone(c, p, t) ==
    LET owner == OwnerOfCall(c, t)
        uri == TokenURICall(c, t)
        journal == AbiEncode(VerifyJournal(Commitment(c), owner))
    IN IF owner = "revert" \/ uri = <<>>
       THEN {[pc |-> "Failed", journal |-> <<>>, error |-> "execution reverted"]}
       ELSE IF uri # FormattedCid[p]
       THEN {[pc |-> "Failed", journal |-> <<>>,
              error |-> "Player CID does not match on-chain data"]}
       ELSE {[pc |-> "Done", journal |-> journal, error |-> ""],
             [pc |-> "Failed", journal |-> journal, error |-> "prover backend error"]}

\* C15 (interleaving independence): with leaf runs for any records in
\* flight side by side, every run ends the way it can end alone, with that
\* journal, and no step of one run changes anything of another run.
InterleavingIndependence ==
    /\ [](\A l \in LeafIds :
            Terminal(leaf[l]) =>
                [pc |-> leaf[l].pc, journal |-> leaf[l].journal, error |-> leaf[l].error]
                    \in VerifyCidAlone(leaf[l].args[1], leaf[l].args[2], leaf[l].args[3]))
    /\ [][\A l, m \in LeafIds :
            (l # m /\ leaf'[l] # leaf[l]) => leaf'[m] = leaf[m]]_vars

\* A run for the test player ended Done while a run for another record,
\* against another snapshot, was between its reads and its assertion.
InterleavingWitness ==
    /\ leaf[1].pc = "Done"
    /\ leaf[1].args[2] = gen_test_player
    /\ leaf[2].pc = "Asserting"
    /\ leaf[2].args[2] = NanPlayer
    /\ leaf[2].args[1] # leaf[1].args[1]

\* The loop of make_team.rs run to its end from where a run stands.
RECURSIVE MakeTeamLoop(_)
MakeTeamLoop(run) ==
    IF run.pc = "Verifying" /\ run.i < TeamSize
    THEN MakeTeamLoop(MakeTeamLoopBody(run))
    ELSE run

\* What is left of an aggregate run when its inputs are put aside.
TeamOutcome(run) ==
    [pc |-> run.pc, i |-> run.i, expected |-> run.expected,
     journal |-> run.journal, error |-> run.error]

\* C16 (independence of records and references): from wherever an aggregate
\* run stands in its loop, the loop ends the same way, accepted or refused
\* at the same index with the same expected journals, for every other choice
\* of the eleven players and the eleven token ids, the snapshot, the claimed
\* owner and the assumptions being the same.
MakeTeamIndependence ==
    team.pc = "Verifying" =>
        \A ps \in TeamPlayers, ts \in TokenIdArrays :
            TeamOutcome(MakeTeamLoop([team EXCEPT !.args[3] = ps, !.args[4] = ts]))
                = TeamOutcome(MakeTeamLoop(team))

\* An aggregate run was accepted at all eleven indices with a player of
\* another record first and token ids that are not all the same.
MakeTeamIndependenceWitness ==
    /\ team.pc = "Proving"
    /\ team.i = TeamSize
    /\ team.args[3][0] = NanPlayer
    /\ team.args[4][1] = 1

\* C17 (one receipt for eleven verifications): in a run of the publisher the
\* aggregate task has exactly one assumption, runs on the very input the
\* leaf task ran on and on the owner of the leaf's journal, every expected
\* journal it builds has the bytes of the leaf's journal, no verification is
\* refused, and it gets past the loop with all eleven accepted.
SingleReceiptDischarges ==
    Started(team) =>
        /\ Cardinality(team.assumptions) = 1
        /\ team.args[1] = leaf[1].args[1]
        /\ team.args[2] = AbiDecode(leaf[1].journal)[1].owner
        /\ \A k \in 1..Len(team.expected) :
              AbiEncode(team.expected[k]) = leaf[1].journal
        /\ ~(team.pc = "Failed" /\ team.error[1].kind = "assumption not resolved")
        /\ team.pc \in {"Proving", "Done"} =>
              team.i = TeamSize /\ Len(team.expected) = TeamSize

\* The publisher's aggregate task got past all eleven verifications on the
\* one receipt of a leaf run against the beacon commitment of block 1.
SingleReceiptWitness ==
    /\ pub.pc = "AwaitTeam"
    /\ team.pc = "Proving"
    /\ team.i = TeamSize
    /\ team.assumptions = {LeafReceipt(leaf[1])}
    /\ leaf[1].args[1] = [kind |-> "Beacon", block |-> 1]

\* The UnixFs tree of a file, built from its bytes: one leaf per chunk (one
\* empty leaf for the empty file) and, over more than one leaf, a link block
\* as the root, which comes last.
RECURSIVE FileLeaves(_)
FileLeaves(input) ==
    IF Len(input) <= ChunkSize
    THEN <<[links |-> <<>>, data |-> input, filesize |-> Len(input)]>>
    ELSE <<[links |-> <<>>, data |-> SubSeq(input, 1, ChunkSize), filesize |-> ChunkSize]>>
         \o FileLeaves(SubSeq(input, ChunkSize + 1, Len(input)))

FileTree(input) ==
    LET leaves == FileLeaves(input)
        links == [k \in 1..Len(leaves) |->
                    [target |-> CidBytes(leaves[k]), file_size |-> leaves[k].filesize]]
    IN IF Len(leaves) = 1 THEN leaves
       ELSE Append(leaves, [links |-> links, data |-> <<>>, filesize |-> Len(input)])

RECURSIVE TotalLen(_)
TotalLen(blocks) ==
    IF blocks = <<>> THEN 0 ELSE BlockLen(Head(blocks)) + TotalLen(Tail(blocks))

\* C18 (root identifier and statistics, as claimed): for every input, what
\* compute_cid returns has a non-empty cid, the CID of the root of the
\* file's tree, and counts in blocks and bytes the blocks of the tree less
\* those the push calls returned.
RootCidAndStats ==
    Len(cid.out) >= 1 =>
        LET stats == cid.out[1].compute_cid
            tree == FileTree(cid.args[1])
        IN /\ stats.cid # <<>>
           /\ stats.cid = CidBytes(tree[Len(tree)])
           /\ stats.blocks = Len(tree) - Len(cid.dropped)
           /\ stats.bytes = TotalLen(tree) - TotalLen(cid.dropped)

====
